---- MODULE Spec2Model ----
(***************************************************************************)
(* AstraGuard: telemetry generation, failure injection, anomaly scoring,   *)
(* diagnosis / recovery and the AI-vs-human scenario runner.               *)
(*                                                                         *)
(* Channel values are fixed-point integers in thousandths (35.0 is 35000). *)
(* Damage and survival are in 1/10000 (a coefficient in tenths times a     *)
(* value in thousandths).  Anomaly scores are integers; a threshold is     *)
(* kept in hundredths of a score unit so that the 0.96 quantile is exact.  *)
(* Python's None is the empty tuple, a present value v is <<v>>.           *)
(* Step indices are 0-based as in the source; a trace is a sequence, so    *)
(* step i is element i+1.                                                  *)
(***************************************************************************)
EXTENDS Integers, Sequences, FiniteSets, TLC

VARIABLES
    pc,                 \* position in the pipeline
    n_steps,            \* simulate_telemetry argument
    err,                \* name of the exception raised, "" when none
    mission_df,         \* result of simulate_telemetry
    failed_df,          \* result of inject_failure: the scenario's input df
    is_fit,             \* AnomalyDetector._is_fit
    model,              \* fitted scaler + forest: sample -> anomaly score
    caller,             \* "run_scenario" or "compare_ai_vs_human"
    ai_enabled,         \* run_scenario argument
    human_delay_steps,  \* run_scenario argument
    anomaly_threshold,  \* run_scenario argument (None or <<v>>)
    trace,              \* run_scenario local: working copy of df
    anomaly_scores,     \* run_scenario local
    threshold,          \* run_scenario local: effective threshold, hundredths
    is_anom,            \* run_scenario local
    trigger_step,       \* run_scenario local (None or <<k>>)
    i,                  \* loop index
    recovered,          \* run_scenario local
    damage_series,      \* run_scenario local
    action_taken,       \* run_scenario local
    result,             \* value returned by the last run_scenario (None or <<r>>)
    ai,                 \* compare_ai_vs_human local (None or <<r>>)
    human,              \* compare_ai_vs_human local (None or <<r>>)
    predicted           \* value returned by AnomalyDetector.predict (None or <<flags>>)

vars == <<pc, n_steps, err, mission_df, failed_df, is_fit, model, caller, ai_enabled,
          human_delay_steps, anomaly_threshold, trace, anomaly_scores,
          threshold, is_anom, trigger_step, i, recovered, damage_series,
          action_taken, result, ai, human, predicted>>

pipeline == <<n_steps, mission_df, failed_df, is_fit, model>>
args     == <<caller, ai_enabled, human_delay_steps, anomaly_threshold>>
locals   == <<trace, anomaly_scores, threshold, is_anom, trigger_step, i,
              recovered, damage_series, action_taken>>

----------------------------------------------------------------------------
(* Bounds of the model                                                     *)

MaxLen == 2
MaxDelay == 1

None == << >>

Min(a, b) == IF a <= b THEN a ELSE b
Max(a, b) == IF a >= b THEN a ELSE b

RECURSIVE SumSeq(_)
SumSeq(s) == IF s = << >> THEN 0 ELSE Head(s) + SumSeq(Tail(s))

----------------------------------------------------------------------------
(* telemetry_simulator.py                                                  *)

\* Series.clip(0, 100)
clip(x) == Max(0, Min(100000, x))

\* Samples as the trend + noise sum leaves them, before the clip: the noise
\* draw (seed, noise_scale) is the nondeterministic input.
RawSamples ==
    { [battery |-> 99000,  temperature |-> 35000,  signal |-> 85000, cpu_load |-> 35000],
      [battery |-> 10000,  temperature |-> 60000,  signal |-> 30000, cpu_load |-> 90000],
      [battery |-> 35000,  temperature |-> 50000,  signal |-> 40000, cpu_load |-> 85000],
      [battery |-> 100400, temperature |-> 45000,  signal |-> -500,  cpu_load |-> 104000],
      [battery |-> 200,    temperature |-> 900000, signal |-> 50000, cpu_load |-> 3000],
      [battery |-> 36000,  temperature |-> 48000,  signal |-> 41000, cpu_load |-> 85100] }

\* the DataFrame built and clipped by simulate_telemetry
clip_df(raw) ==
    [k \in 1..Len(raw) |->
        [t           |-> k - 1,
         battery     |-> clip(raw[k].battery),
         temperature |-> raw[k].temperature,
         signal      |-> clip(raw[k].signal),
         cpu_load    |-> clip(raw[k].cpu_load)]]

\* 1000 * sin(k/7), 1000 * |sin(k/10)|, 1000 * |sin(k/6)| for k = 0..7
Sin7  == <<0, 142, 282, 416, 541, 655, 756, 841>>
Sin10 == <<0, 100, 199, 296, 389, 479, 565, 644>>
Sin6  == <<0, 166, 327, 479, 618, 740, 841, 919>>

FailureTypes == {"thermal_runaway", "power_drain", "comm_drop"}

\* severity in tenths (12 is 1.2); x is a perturbation in thousandths at severity 1
Scaled(severity, x) == (severity * x) \div 10

\* the archetype's perturbation of one row, k = t - start >= 0
perturb(row, failure_type, k, severity) ==
    CASE failure_type = "thermal_runaway" ->
            [row EXCEPT !.temperature = @ + Scaled(severity, 50 * k + (8 * Sin7[k + 1]) \div 10),
                        !.cpu_load    = @ + Scaled(severity, 30 * k)]
      [] failure_type = "power_drain" ->
            [row EXCEPT !.battery  = @ - Scaled(severity, 60 * k + (4 * Sin10[k + 1]) \div 10),
                        !.cpu_load = @ - Scaled(severity, 10 * k)]
      [] failure_type = "comm_drop" ->
            [row EXCEPT !.signal   = @ - Scaled(severity, 180 * k + 3 * Sin6[k + 1]),
                        !.cpu_load = @ + Scaled(severity, 20 * k)]

\* start = max(0, min(start, n - 1))
clamp_start(start, n) == Max(0, Min(start, n - 1))

\* the re-clip at the end of inject_failure
reclip(row) ==
    [row EXCEPT !.battery = clip(@), !.signal = clip(@), !.cpu_load = clip(@)]

inject_failure(df, failure_type, start, severity) ==
    LET n  == Len(df)
        st == clamp_start(start, n)
    IN  [k \in 1..n |->
            IF k - 1 >= st
            THEN reclip(perturb(df[k], failure_type, k - 1 - st, severity))
            ELSE reclip(df[k])]

----------------------------------------------------------------------------
(* controller.py                                                           *)

\* variant: the battery check placed ahead of the temperature check
diagnose_failure_power_first(row) ==
    IF row.battery < 35000 THEN "power"
    ELSE IF row.temperature > 50000 THEN "thermal"
    ELSE IF row.signal < 40000 THEN "comm"
    ELSE IF row.cpu_load > 85000 THEN "cpu"
    ELSE "unknown"

diagnose_failure(row) ==
    IF row.temperature > 50000 THEN "thermal"
    ELSE IF row.battery < 35000 THEN "power"
    ELSE IF row.signal < 40000 THEN "comm"
    ELSE IF row.cpu_load > 85000 THEN "cpu"
    ELSE "unknown"

\* variant: the cooling step adds 3.0 instead of subtracting it
apply_recovery_heats(row, failure) ==
    CASE failure = "thermal" ->
            [row EXCEPT !.temperature = Max(20000, @ + 3000),
                        !.cpu_load    = Max(0, @ - 8000),
                        !.battery     = Max(0, @ - 300)]
      [] failure = "power" ->
            [row EXCEPT !.cpu_load = Max(0, @ - 10000),
                        !.battery  = Min(100000, @ + 600)]
      [] failure = "comm" ->
            [row EXCEPT !.signal   = Min(100000, @ + 12000),
                        !.cpu_load = Min(100000, @ + 2000),
                        !.battery  = Max(0, @ - 200)]
      [] failure = "cpu" ->
            [row EXCEPT !.cpu_load = Max(0, @ - 15000),
                        !.battery  = Max(0, @ - 200)]
      [] OTHER -> row

\* variant: the additive mitigation without its min / max clamps
apply_recovery_unclamped(row, failure) ==
    CASE failure = "thermal" ->
            [row EXCEPT !.temperature = @ - 3000,
                        !.cpu_load    = @ - 8000,
                        !.battery     = @ - 300]
      [] failure = "power" ->
            [row EXCEPT !.cpu_load = @ - 10000,
                        !.battery  = @ + 600]
      [] failure = "comm" ->
            [row EXCEPT !.signal   = @ + 12000,
                        !.cpu_load = @ + 2000,
                        !.battery  = @ - 200]
      [] failure = "cpu" ->
            [row EXCEPT !.cpu_load = @ - 15000,
                        !.battery  = @ - 200]
      [] OTHER -> row

apply_recovery(row, failure) ==
    CASE failure = "thermal" ->
            [row EXCEPT !.temperature = Max(20000, @ - 3000),
                        !.cpu_load    = Max(0, @ - 8000),
                        !.battery     = Max(0, @ - 300)]
      [] failure = "power" ->
            [row EXCEPT !.cpu_load = Max(0, @ - 10000),
                        !.battery  = Min(100000, @ + 600)]
      [] failure = "comm" ->
            [row EXCEPT !.signal   = Min(100000, @ + 12000),
                        !.cpu_load = Min(100000, @ + 2000),
                        !.battery  = Max(0, @ - 200)]
      [] failure = "cpu" ->
            [row EXCEPT !.cpu_load = Max(0, @ - 15000),
                        !.battery  = Max(0, @ - 200)]
      [] OTHER -> row

mission_damage(row) ==
      (IF row.battery < 40000 THEN (40000 - row.battery) * 6 ELSE 0)
    + (IF row.temperature > 45000 THEN (row.temperature - 45000) * 12 ELSE 0)
    + (IF row.signal < 50000 THEN (50000 - row.signal) * 7 ELSE 0)
    + (IF row.cpu_load > 80000 THEN (row.cpu_load - 80000) * 4 ELSE 0)

----------------------------------------------------------------------------
(* ai_detector.py                                                          *)

\* df[FEATURES]: the row without its step index
features(row) ==
    [battery |-> row.battery, temperature |-> row.temperature,
     signal |-> row.signal, cpu_load |-> row.cpu_load]

ScoreVals == {0, 1}

\* variant: score without the _is_fit check (an unfitted model scores 0)
score_unchecked(fit, mdl, df) ==
    <<[k \in 1..Len(df) |->
        IF features(df[k]) \in DOMAIN mdl THEN mdl[features(df[k])] ELSE 0]>>

\* AnomalyDetector.score: None stands for the RuntimeError of an unfitted
\* detector, otherwise one score per row, a function of the row's features.
score(fit, mdl, df) ==
    IF ~fit THEN None
    ELSE <<[k \in 1..Len(df) |-> mdl[features(df[k])]]>>

\* np.quantile(s, 0.96), linear interpolation, in hundredths of a score unit
quantile96(s) ==
    LET sorted == SortSeq(s, LAMBDA a, b : a < b)
        pos    == 96 * (Len(s) - 1)
        lo     == pos \div 100
        frac   == pos % 100
        hi     == IF frac = 0 THEN lo ELSE lo + 1
    IN  100 * sorted[lo + 1] + (sorted[hi + 1] - sorted[lo + 1]) * frac

\* variant: a strict comparison against the threshold
flag_strict(s, thr) == [k \in 1..Len(s) |-> 100 * s[k] > thr]

\* anomaly_scores >= anomaly_threshold
flag(s, thr) == [k \in 1..Len(s) |-> 100 * s[k] >= thr]

----------------------------------------------------------------------------
(* comparison.py                                                           *)

\* int(np.argmax(is_anom)) if is_anom.any() else None
first_anom_of(flags) ==
    IF \E k \in 1..Len(flags) : flags[k]
    THEN <<(CHOOSE k \in 1..Len(flags) :
                flags[k] /\ \A j \in 1..(k - 1) : ~flags[j]) - 1>>
    ELSE None

\* variant: the human trigger without the min(n - 1, .) clamp
trigger_of_noclamp(first_anom, ai_en, n, d) ==
    IF first_anom = None THEN None
    ELSE IF ai_en THEN first_anom
    ELSE <<first_anom[1] + d>>

\* trigger_step = first_anom if ai_enabled else min(n - 1, first_anom + human_delay_steps)
trigger_of(first_anom, ai_en, n, d) ==
    IF first_anom = None THEN None
    ELSE IF ai_en THEN first_anom
    ELSE <<Min(n - 1, first_anom[1] + d)>>

\* variant: an absent trigger treated as step 0
mitigating_none_as_zero(trig, step) == trig = None \/ step >= trig[1]

\* variant: recovery only at the trigger step itself
mitigating_oneshot(trig, step) == trig # None /\ step = trig[1]

\* trigger_step is not None and i >= trigger_step
mitigating(trig, step) == trig # None /\ step >= trig[1]

\* the row written back at step i, and its action label
step_row(row, trig, step) ==
    IF mitigating(trig, step)
    THEN apply_recovery(row, diagnose_failure(row))
    ELSE row

step_action(row, trig, step) ==
    IF mitigating(trig, step) THEN diagnose_failure(row) ELSE "none"

\* variant: damage taken from the row as read, before mitigation
step_damage_original(row, new) == mission_damage(row)

\* damage_series.append(mission_damage(row)): row is the written-back row
step_damage(row, new) == mission_damage(new)

\* survival_score = max(0.0, 1000.0 - total_damage)
survival_of(total) == Max(0, 10000000 - total)

ThresholdArgs == {None, <<1>>}

Init ==
    /\ pc = "start"
    /\ n_steps \in -1..MaxLen
    /\ err = ""
    /\ mission_df = << >>
    /\ failed_df = << >>
    /\ is_fit = FALSE
    /\ model = << >>
    /\ caller = ""
    /\ ai_enabled = FALSE
    /\ human_delay_steps = 0
    /\ anomaly_threshold = None
    /\ trace = << >>
    /\ anomaly_scores = << >>
    /\ threshold = None
    /\ is_anom = << >>
    /\ trigger_step = None
    /\ i = 0
    /\ recovered = << >>
    /\ damage_series = << >>
    /\ action_taken = << >>
    /\ result = None
    /\ ai = None
    /\ human = None
    /\ predicted = None

\* simulate_telemetry(n_steps, seed, noise_scale): a negative size makes
\* rng.normal raise ValueError; n_steps = 0 yields an empty frame.
simulate_telemetry ==
    /\ pc = "start"
    /\ IF n_steps < 0
       THEN /\ pc' = "raised"
            /\ err' = "ValueError"
            /\ UNCHANGED mission_df
       ELSE /\ \E raw \in [1..n_steps -> RawSamples] : mission_df' = clip_df(raw)
            /\ pc' = "generated"
            /\ UNCHANGED err
    /\ UNCHANGED <<n_steps, failed_df, is_fit, model, args, locals, result, ai, human, predicted>>

Starts == -1..MaxLen
Severities == {12, 1000}

\* inject_failure(df, failure_type, start, severity)
InjectFailure ==
    /\ pc = "generated"
    /\ \E failure_type \in FailureTypes \cup {"solar_flare"},
          start \in Starts, severity \in Severities :
          IF failure_type \in FailureTypes
          THEN /\ failed_df' = inject_failure(mission_df, failure_type, start, severity)
               /\ pc' = "ready"
               /\ UNCHANGED err
          ELSE /\ pc' = "raised"
               /\ err' = "ValueError"
               /\ UNCHANGED failed_df
    /\ UNCHANGED <<n_steps, mission_df, is_fit, model, args, locals, result, ai, human, predicted>>

\* AnomalyDetector.fit: the training data, contamination and random state
\* decide the fitted scoring function; any is possible.
Fit ==
    /\ pc = "ready"
    /\ ~is_fit
    /\ model' \in [{features(failed_df[k]) : k \in 1..Len(failed_df)} -> ScoreVals]
    /\ is_fit' = TRUE
    /\ UNCHANGED <<pc, n_steps, err, mission_df, failed_df, args, locals, result, ai, human, predicted>>

\* AnomalyDetector.predict(df, threshold)
Predict ==
    /\ pc = "ready"
    /\ caller' = "predict"
    /\ \E thr \in ThresholdArgs :
          LET sc == score(is_fit, model, failed_df)
          IN  IF sc = None
              THEN pc' = "raised" /\ err' = "RuntimeError" /\ UNCHANGED predicted
              ELSE IF Len(failed_df) = 0
              THEN pc' = "raised" /\ err' = "ValueError" /\ UNCHANGED predicted
              ELSE /\ predicted' = <<flag(sc[1], IF thr = None THEN quantile96(sc[1])
                                                               ELSE 100 * thr[1])>>
                   /\ pc' = "done"
                   /\ UNCHANGED err
    /\ UNCHANGED <<pipeline, ai_enabled, human_delay_steps, anomaly_threshold,
                   locals, result, ai, human>>

\* run_scenario lines 22-38: copy, score, threshold, flags, trigger.
\* score raises RuntimeError on an unfitted detector (its first statement);
\* on a fitted one an empty frame is refused by scaler.transform (ValueError).
Enter(ai_en, d, thr) ==
    LET sc == score(is_fit, model, failed_df)
        n  == Len(failed_df)
    IN  /\ ai_enabled' = ai_en
        /\ human_delay_steps' = d
        /\ anomaly_threshold' = thr
        /\ trace' = failed_df
        /\ i' = 0
        /\ recovered' = << >>
        /\ damage_series' = << >>
        /\ IF sc = None
           THEN /\ pc' = "raised"
                /\ err' = "RuntimeError"
                /\ UNCHANGED <<anomaly_scores, threshold, is_anom, trigger_step, action_taken>>
           ELSE IF n = 0
           THEN /\ pc' = "raised"
                /\ err' = "ValueError"
                /\ UNCHANGED <<anomaly_scores, threshold, is_anom, trigger_step, action_taken>>
           ELSE LET th == IF thr = None THEN quantile96(sc[1]) ELSE 100 * thr[1]
                    fl == flag(sc[1], th)
                IN  /\ anomaly_scores' = sc[1]
                    /\ threshold' = <<th>>
                    /\ is_anom' = fl
                    /\ trigger_step' = trigger_of(first_anom_of(fl), ai_en, n, d)
                    /\ action_taken' = [k \in 1..n |-> "none"]
                    /\ pc' = "loop"
                    /\ UNCHANGED err

RunScenario ==
    /\ pc = "ready"
    /\ \E ai_en \in BOOLEAN, d \in 0..MaxDelay, thr \in ThresholdArgs :
          Enter(ai_en, d, thr)
    /\ caller' = "run_scenario"
    /\ UNCHANGED <<pipeline, result, ai, human, predicted>>

\* compare_ai_vs_human line 74
CompareAi ==
    /\ pc = "ready"
    /\ \E d \in 0..MaxDelay : Enter(TRUE, d, None)
    /\ caller' = "compare_ai_vs_human"
    /\ UNCHANGED <<pipeline, result, ai, human, predicted>>

\* one iteration of the loop of run_scenario, lines 40-54
LoopStep ==
    /\ pc = "loop"
    /\ i < Len(trace)
    /\ LET row == trace[i + 1]
           new == step_row(row, trigger_step, i)
       IN  /\ action_taken' = [action_taken EXCEPT ![i + 1] = step_action(row, trigger_step, i)]
           /\ recovered' = Append(recovered, mitigating(trigger_step, i))
           /\ trace' = [trace EXCEPT ![i + 1] = new]
           /\ damage_series' = Append(damage_series, step_damage(row, new))
    /\ i' = i + 1
    /\ UNCHANGED <<pc, err, pipeline, args, anomaly_scores, threshold, is_anom,
                   trigger_step, result, ai, human, predicted>>

\* lines 56-66: the ScenarioResult
scenario_result ==
    LET total == SumSeq(damage_series)
    IN  [trace          |-> trace,
         anomaly_scores |-> anomaly_scores,
         is_anomaly     |-> is_anom,
         trigger_step   |-> trigger_step,
         total_damage   |-> total,
         survival_score |-> survival_of(total),
         action_taken   |-> action_taken]

Return ==
    /\ pc = "loop"
    /\ i = Len(trace)
    /\ result' = <<scenario_result>>
    /\ IF caller = "run_scenario"
       THEN pc' = "done" /\ UNCHANGED <<ai, human>>
       ELSE IF ai_enabled
       THEN pc' = "compare_human" /\ ai' = <<scenario_result>> /\ UNCHANGED human
       ELSE pc' = "done" /\ human' = <<scenario_result>> /\ UNCHANGED ai
    /\ UNCHANGED <<err, pipeline, args, locals, predicted>>

\* compare_ai_vs_human line 75
CompareHuman ==
    /\ pc = "compare_human"
    /\ Enter(FALSE, human_delay_steps, None)
    /\ UNCHANGED <<caller, pipeline, result, ai, human, predicted>>

Next ==
    \/ simulate_telemetry
    \/ InjectFailure
    \/ Fit
    \/ Predict
    \/ RunScenario
    \/ CompareAi
    \/ LoopStep
    \/ Return
    \/ CompareHuman

Spec == Init /\ [][Next]_vars

----------------------------------------------------------------------------
(* Properties                                                              *)

\* a run_scenario call has passed its set-up: the locals describe that run
InRun ==
    /\ pc \in {"loop", "compare_human", "done"}
    /\ caller \in {"run_scenario", "compare_ai_vs_human"}

Flagged == {k \in 0..(Len(is_anom) - 1) : is_anom[k + 1]}

FirstFlagged == CHOOSE f \in Flagged : \A g \in Flagged : f <= g

\* the penalty formula of the specification, in 1/10000
Penalty(row) ==
      6 * Max(0, 40000 - row.battery)
    + 12 * Max(0, row.temperature - 45000)
    + 7 * Max(0, 50000 - row.signal)
    + 4 * Max(0, row.cpu_load - 80000)

RECURSIVE SumPenalty(_)
SumPenalty(df) == IF df = << >> THEN 0 ELSE Penalty(Head(df)) + SumPenalty(Tail(df))

InRange(df) ==
    \A k \in 1..Len(df) :
        /\ 0 <= df[k].battery  /\ df[k].battery  <= 100000
        /\ 0 <= df[k].signal   /\ df[k].signal   <= 100000
        /\ 0 <= df[k].cpu_load /\ df[k].cpu_load <= 100000

\* C1: with first flagged step f, the automated trigger step is f; the
\* human-delayed trigger step is f + d when that is at most n - 1 and n - 1
\* otherwise, so it lies between f and n - 1.
C1_TriggerStep ==
    (InRun /\ Flagged # {}) =>
        LET f == FirstFlagged
            n == Len(failed_df)
            d == human_delay_steps
        IN  /\ ai_enabled => trigger_step = <<f>>
            /\ ~ai_enabled =>
                  /\ trigger_step = <<IF f + d <= n - 1 THEN f + d ELSE n - 1>>
                  /\ trigger_step[1] <= n - 1
                  /\ trigger_step[1] >= f

\* a human-delayed run whose delay runs past the end of the trace
C1_Witness ==
    /\ InRun /\ ~ai_enabled /\ Flagged # {}
    /\ human_delay_steps > 0
    /\ FirstFlagged + human_delay_steps > Len(failed_df) - 1
    /\ trigger_step = <<Len(failed_df) - 1>>

\* C2: when compare_ai_vs_human returns and both runs triggered, the
\* automated run triggers no later, accumulates no more damage and scores
\* no lower survival than the human-delayed run.
C2_AiNoWorse ==
    (/\ pc = "done" /\ caller = "compare_ai_vs_human"
     /\ ai # None /\ human # None
     /\ ai[1].trigger_step # None /\ human[1].trigger_step # None) =>
        /\ ai[1].trigger_step[1] <= human[1].trigger_step[1]
        /\ ai[1].total_damage <= human[1].total_damage
        /\ ai[1].survival_score >= human[1].survival_score

\* a comparison in which the earlier trigger strictly reduced the damage
C2_Witness ==
    /\ pc = "done" /\ caller = "compare_ai_vs_human"
    /\ ai # None /\ human # None
    /\ ai[1].trigger_step # None /\ human[1].trigger_step # None
    /\ ai[1].trigger_step[1] < human[1].trigger_step[1]
    /\ ai[1].total_damage < human[1].total_damage

\* C3: a run in which no step is flagged has no trigger step, labels every
\* step "none", returns the input trace unchanged and charges the damage
\* of the unmitigated input.
C3_Dormant ==
    /\ (InRun /\ Flagged = {}) =>
          /\ trigger_step = None
          /\ trace = failed_df
          /\ \A k \in 1..Len(action_taken) : action_taken[k] = "none"
    /\ (result # None /\ \A k \in 1..Len(result[1].is_anomaly) : ~result[1].is_anomaly[k]) =>
          /\ result[1].trigger_step = None
          /\ \A k \in 1..Len(result[1].action_taken) : result[1].action_taken[k] = "none"
          /\ Len(result[1].action_taken) = Len(failed_df)
          /\ result[1].trace = failed_df
          /\ result[1].total_damage = SumPenalty(failed_df)

\* a finished human-delayed run that never flagged, on a trace that a
\* mitigation would have changed
C3_Witness ==
    /\ pc = "done" /\ result # None
    /\ ~ai_enabled /\ human_delay_steps > 0
    /\ \A k \in 1..Len(result[1].is_anomaly) : ~result[1].is_anomaly[k]
    /\ result[1].total_damage > 0
    /\ \E k \in 1..Len(failed_df) :
          apply_recovery(failed_df[k], diagnose_failure(failed_df[k])) # failed_df[k]

\* C4: battery, signal and cpu_load of every sample stay within [0, 100]
\* after inject_failure and after the per-step recovery of run_scenario.
C4_Clamping ==
    InRange(mission_df) =>
        /\ InRange(failed_df)
        /\ InRange(trace)
        /\ result # None => InRange(result[1].trace)
        /\ ai # None => InRange(ai[1].trace)
        /\ human # None => InRange(human[1].trace)

\* the injector clipped a signal to 0 and the recovery clamped a cpu_load at 100
C4_Witness ==
    /\ pc = "done" /\ result # None
    /\ \E k \in 1..Len(failed_df) :
          failed_df[k].signal = 0 /\ mission_df[k].signal > 0
    /\ \E k \in 1..Len(failed_df) :
          /\ result[1].action_taken[k] = "comm"
          /\ failed_df[k].cpu_load > 98000
          /\ result[1].trace[k].cpu_load = 100000

\* the modes in the order they are checked, and each mode's threshold
Order == <<"thermal", "power", "comm", "cpu">>

Meets(row, mode) ==
    CASE mode = "thermal" -> row.temperature > 50000
      [] mode = "power"   -> row.battery < 35000
      [] mode = "comm"    -> row.signal < 40000
      [] mode = "cpu"     -> row.cpu_load > 85000

Expected(row) ==
    IF \E m \in 1..4 : Meets(row, Order[m])
    THEN Order[CHOOSE m \in 1..4 :
                 Meets(row, Order[m]) /\ \A l \in 1..(m - 1) : ~Meets(row, Order[l])]
    ELSE "unknown"

\* samples at, just inside and just outside every threshold
DiagGrid ==
    [t : {0},
     battery : {10000, 34999, 35000, 35001},
     temperature : {49999, 50000, 50001, 60000},
     signal : {39999, 40000, 40001},
     cpu_load : {84999, 85000, 85001}]

\* C5: the diagnosed mode is the earliest of thermal, power, comm, cpu whose
\* threshold the sample strictly passes, and unknown when it passes none;
\* this holds of every label the loop records and of every sample around
\* the thresholds (a statement about the function alone, so it is evaluated
\* once, before the pipeline starts).
C5_FirstMatch ==
    /\ \A k \in 1..Len(action_taken) :
          action_taken[k] # "none" => action_taken[k] = Expected(failed_df[k])
    /\ pc = "start" => \A row \in DiagGrid : diagnose_failure(row) = Expected(row)

\* a mitigated step whose sample is both too hot and low on battery
C5_Witness ==
    \E k \in 1..Len(action_taken) :
        /\ failed_df[k].temperature = 60000
        /\ failed_df[k].battery = 10000
        /\ action_taken[k] = "thermal"

\* C6: a call made on an unfitted detector (predict, run_scenario,
\* compare_ai_vs_human) ends in the not-fitted RuntimeError with no loop
\* step taken, no result of any kind and the input trace as it was.
C6_NotFitted ==
    [][(pc = "ready" /\ ~is_fit /\ pc' # "ready") =>
          /\ pc' = "raised"
          /\ err' = "RuntimeError"
          /\ i' = 0
          /\ damage_series' = << >>
          /\ recovered' = << >>
          /\ action_taken' = << >>
          /\ result' = None /\ ai' = None /\ human' = None /\ predicted' = None
          /\ failed_df' = failed_df]_vars

\* compare_ai_vs_human rejected on an unfitted detector and a non-empty trace
C6_Witness ==
    /\ pc = "raised" /\ err = "RuntimeError"
    /\ ~is_fit
    /\ caller = "compare_ai_vs_human"
    /\ Len(failed_df) > 0
    /\ result = None /\ ai = None /\ human = None

\* C7: simulate_telemetry with n_steps <= 0 is rejected: it never returns a
\* series.
C7_NonPositiveRejected ==
    n_steps <= 0 => pc \in {"start", "raised"}

\* C8: every step before the trigger step keeps its input sample and the
\* label "none"; every step from the trigger step on holds
\* apply_recovery(input, diagnose_failure(input)) of its own input sample
\* and that mode as label; once a step is mitigated all later steps are.
C8_TwoState ==
    InRun =>
        /\ \A k \in 0..(Len(failed_df) - 1) :
              IF k < i /\ trigger_step # None /\ k >= trigger_step[1]
              THEN /\ trace[k + 1] =
                        apply_recovery(failed_df[k + 1], diagnose_failure(failed_df[k + 1]))
                   /\ action_taken[k + 1] = diagnose_failure(failed_df[k + 1])
                   /\ recovered[k + 1]
              ELSE /\ trace[k + 1] = failed_df[k + 1]
                   /\ action_taken[k + 1] = "none"
                   /\ k < i => ~recovered[k + 1]
        /\ \A j, k \in 1..Len(recovered) : (j < k /\ recovered[j]) => recovered[k]

\* a finished run that was dormant at step 0, on a sample a mitigation
\* would have changed, and mitigating from step 1
C8_Witness ==
    /\ pc = "done" /\ InRun
    /\ trigger_step = <<1>>
    /\ trace[1] = failed_df[1]
    /\ apply_recovery(failed_df[1], diagnose_failure(failed_df[1])) # failed_df[1]
    /\ trace[2] # failed_df[2]
    /\ action_taken[1] = "none" /\ action_taken[2] # "none"

\* C9: each per-step damage is the penalty of the written-back sample and
\* is not negative; total_damage is the sum of the penalties over the
\* returned trace; survival_score = max(0, 1000 - total_damage), within
\* [0, 1000].
C9_Damage ==
    /\ \A k \in 1..Len(damage_series) :
          damage_series[k] = Penalty(trace[k]) /\ damage_series[k] >= 0
    /\ result # None =>
          /\ result[1].total_damage = SumPenalty(result[1].trace)
          /\ result[1].survival_score = Max(0, 10000000 - result[1].total_damage)
          /\ 0 <= result[1].survival_score
          /\ result[1].survival_score <= 10000000

\* a result whose mitigation changed the damage and whose survival is cut at 0
C9_Witness ==
    /\ result # None
    /\ result[1].total_damage # SumPenalty(failed_df)
    /\ result[1].total_damage > 10000000
    /\ result[1].survival_score = 0

\* C10: without an explicit threshold the threshold is at most the largest
\* score, some step is flagged and the trigger step is present; neither
\* result of compare_ai_vs_human has an absent trigger step.
C10_AlwaysFlags ==
    /\ (InRun /\ anomaly_threshold = None) =>
          /\ \E k \in 1..Len(anomaly_scores) : threshold[1] <= 100 * anomaly_scores[k]
          /\ Flagged # {}
          /\ trigger_step # None
    /\ (caller = "compare_ai_vs_human" /\ ai # None) => ai[1].trigger_step # None
    /\ (caller = "compare_ai_vs_human" /\ human # None) => human[1].trigger_step # None

\* a finished comparison on a nominal, fault-free trace whose scores are all equal
C10_Witness ==
    /\ pc = "done" /\ caller = "compare_ai_vs_human"
    /\ failed_df = mission_df
    /\ \A k \in 1..Len(failed_df) : Penalty(failed_df[k]) = 0
    /\ \A j, k \in 1..Len(anomaly_scores) : anomaly_scores[j] = anomaly_scores[k]
    /\ ai # None /\ human # None
    /\ ai[1].trigger_step = <<0>>
    /\ human[1].trigger_step # None

====
